---- MODULE Spec2Model ----
(***************************************************************************)
(* Bench-test sequencer for a device under test: run_beep_sequence drives  *)
(* three run_test acquisitions (power supply + multimeter over VISA),      *)
(* parses each fetched buffer into current readings and counts current     *)
(* spikes with detect_beep.  Modelled from src/current_code.py; the same   *)
(* functions appear unchanged in src/Current_module.py.                    *)
(*                                                                         *)
(* Numbers.  A reading is a decimal <<m, e>> standing for m * 10^e, kept   *)
(* normalised (m not divisible by 10, zero is <<0, 0>>), so two readings   *)
(* are equal exactly when the floats are.  Voltages are integers in        *)
(* millivolts.  Text is a sequence of one-character strings.               *)
(***************************************************************************)
EXTENDS Integers, Sequences, FiniteSets, TLC

\* ------------------------------------------------------------------------
\* Bounds of the model
\* ------------------------------------------------------------------------
MaxPayloadLen == 4
MaxLen == 5
MaxGap == 3
MaxSpikes == 7

\* ------------------------------------------------------------------------
\* Text helpers (Python str semantics)
\* ------------------------------------------------------------------------
Range(s) == {s[k] : k \in 1..Len(s)}

DigitChars == <<"0", "1", "2", "3", "4", "5", "6", "7", "8", "9">>

IsDigit(c) == c \in Range(DigitChars)

DigitVal(c) == (CHOOSE d \in 1..10 : DigitChars[d] = c) - 1

Whitespace == {" "}

KeepChars == {".", "-", "E", "e"}

Alphabet == {"0", "1", ".", "-", "+", "E", ",", "A", " "}

RECURSIVE LStrip(_)
LStrip(s) ==
    IF s # <<>> /\ Head(s) \in Whitespace THEN LStrip(Tail(s)) ELSE s

RECURSIVE RStrip(_)
RStrip(s) ==
    IF s # <<>> /\ s[Len(s)] \in Whitespace
    THEN RStrip(SubSeq(s, 1, Len(s) - 1))
    ELSE s

\* str.strip()
Strip(s) == RStrip(LStrip(s))

\* str.split(','): the pieces between commas, empty pieces included
RECURSIVE SplitFrom(_, _)
SplitFrom(s, cur) ==
    IF s = <<>> THEN <<cur>>
    ELSE IF Head(s) = "," THEN <<cur>> \o SplitFrom(Tail(s), <<>>)
    ELSE SplitFrom(Tail(s), Append(cur, Head(s)))

Split(s) == SplitFrom(s, <<>>)

\* ------------------------------------------------------------------------
\* Decimals and Python's float()
\* ------------------------------------------------------------------------
RECURSIVE Pow10(_)
Pow10(n) == IF n <= 0 THEN 1 ELSE 10 * Pow10(n - 1)

RECURSIVE Normalize(_, _)
Normalize(m, e) ==
    IF m = 0 THEN <<0, 0>>
    ELSE IF m % 10 = 0 THEN Normalize(m \div 10, e + 1)
    ELSE <<m, e>>

\* a > b on decimals
DecGT(a, b) ==
    LET lo == IF a[2] < b[2] THEN a[2] ELSE b[2]
    IN  a[1] * Pow10(a[2] - lo) > b[1] * Pow10(b[2] - lo)

\* first position >= p of s that holds no digit
RECURSIVE DigitsEnd(_, _)
DigitsEnd(s, p) ==
    IF p <= Len(s) /\ IsDigit(s[p]) THEN DigitsEnd(s, p + 1) ELSE p

RECURSIVE DigitsValue(_, _, _)
DigitsValue(s, from, to) ==
    IF to < from THEN 0
    ELSE 10 * DigitsValue(s, from, to - 1) + DigitVal(s[to])

SignLen(s, p) == IF p <= Len(s) /\ s[p] \in {"+", "-"} THEN 1 ELSE 0

SignOf(s, p) == IF p <= Len(s) /\ s[p] = "-" THEN -1 ELSE 1

\* the places of a decimal literal [sign] digits [. digits] [E [sign] digits]
FloatParts(t) ==
    LET p1 == 1 + SignLen(t, 1)
        p2 == DigitsEnd(t, p1)
        dot == p2 <= Len(t) /\ t[p2] = "."
        p3 == IF dot THEN DigitsEnd(t, p2 + 1) ELSE p2
        nint == p2 - p1
        nfrac == IF dot THEN p3 - (p2 + 1) ELSE 0
        hasexp == p3 <= Len(t) /\ t[p3] \in {"E", "e"}
        p4 == IF hasexp THEN p3 + 1 + SignLen(t, p3 + 1) ELSE p3
        p5 == IF hasexp THEN DigitsEnd(t, p4) ELSE p3
    IN  [p1 |-> p1, p2 |-> p2, p3 |-> p3, p4 |-> p4, p5 |-> p5,
         nint |-> nint, nfrac |-> nfrac, hasexp |-> hasexp]

\* float(s) succeeds (no ValueError)
PyFloatOk(s) ==
    LET t == Strip(s)
        f == FloatParts(t)
    IN  /\ f.nint + f.nfrac >= 1
        /\ f.hasexp => f.p5 > f.p4
        /\ f.p5 = Len(t) + 1

\* the value float(s) returns when it succeeds
PyFloatValue(s) ==
    LET t == Strip(s)
        f == FloatParts(t)
        mant == DigitsValue(t, f.p1, f.p2 - 1) * Pow10(f.nfrac)
                + (IF f.nfrac > 0 THEN DigitsValue(t, f.p2 + 1, f.p3 - 1) ELSE 0)
        ex == IF f.hasexp
              THEN SignOf(t, f.p3 + 1) * DigitsValue(t, f.p4, f.p5 - 1)
              ELSE 0
    IN  Normalize(SignOf(t, 1) * mant, ex - f.nfrac)

\* ------------------------------------------------------------------------
\* The parsing step of run_test
\* ------------------------------------------------------------------------
\* mutant: the minus sign is not kept
IsNumericChar_NoMinus(c) == IsDigit(c) \/ c \in {".", "E", "e"}

IsNumericChar(c) == IsDigit(c) \/ c \in KeepChars

\* ''.join(c for c in value if c.isdigit() or c in '.-Ee')
CleanValue(value) == SelectSeq(value, IsNumericChar)

\* the for loop over raw_data.split(','): a token whose clean_value is empty
\* or makes float() raise ValueError is skipped
RECURSIVE ParseTokens(_)
ParseTokens(tokens) ==
    IF tokens = <<>> THEN <<>>
    ELSE LET clean_value == CleanValue(Head(tokens))
         IN  IF clean_value # <<>> /\ PyFloatOk(clean_value)
             THEN <<PyFloatValue(clean_value)>> \o ParseTokens(Tail(tokens))
             ELSE ParseTokens(Tail(tokens))

\* the else branch: the whole payload is one value
ParseSingle(raw) ==
    LET clean_value == CleanValue(raw)
    IN  IF clean_value # <<>> /\ PyFloatOk(clean_value)
        THEN <<PyFloatValue(clean_value)>>
        ELSE <<>>

ParseReadings(raw_data) ==
    LET raw == Strip(raw_data)
    IN  IF "," \in Range(raw) THEN ParseTokens(Split(raw)) ELSE ParseSingle(raw)

\* ------------------------------------------------------------------------
\* Program constants and inputs
\* ------------------------------------------------------------------------
DefaultSampleCount == 100

\* mutant: the triple-beep run keeps the default sample count
TripleSampleCount_Default == DefaultSampleCount

TripleSampleCount == 600
DefaultMinGap == 10
SleepMsPerSample == 10
DefaultNplc == <<1, -1>>
TripleNplc == <<1, 0>>
DefaultThreshold == <<5, -3>>

SupportedLabels == {"Double Beep", "Triple Beep"}

NoArg == <<>>
NoResult == [label |-> "", voltage |-> 0, readings |-> <<>>]
NoDet == [readings |-> <<>>, label |-> "", threshold |-> <<0, 0>>, min_gap |-> 1]
NoFrame == [label |-> "", voltage |-> 0, nplc |-> <<0, 0>>, sample_count |-> 0]

\* caller-given voltages, in millivolts
Voltages == {5000, 5204}

\* f"{voltage:.2f}": the voltage rounded to hundredths of a volt (centivolts);
\* Voltages holds no value halfway between two hundredths
Fmt2(voltage) == (voltage + 5) \div 10

\* int(sample_count * nplc * 1000 * 2), in milliseconds
Timeout(sample_count, nplc) ==
    (sample_count * nplc[1] * Pow10(nplc[2] + 3) * 2) \div Pow10(-(nplc[2] + 3))

\* sample_count * 0.01 seconds, in milliseconds
SleepMs(sample_count) == sample_count * SleepMsPerSample

\* replies of the multimeter to :FETC? used for the sequencer
RECURSIVE PulseTrain(_, _)
PulseTrain(k, n) ==
    IF n = 0 THEN <<>>
    ELSE (IF n = 1 THEN <<>> ELSE PulseTrain(k, n - 1) \o <<",">>)
         \o (IF (n - 1) % DefaultMinGap = 0 /\ (n - 1) \div DefaultMinGap < k
             THEN <<"0", ".", "0", "1">> ELSE <<"0">>)

FetchReplies ==
    { <<>>,
      <<"A">>,
      <<"+", "1", ".", "0", "E", "-", "1", "A", ",", "A", ",", "0", " ">>,
      PulseTrain(2, 2 * DefaultMinGap + 1),
      PulseTrain(3, 2 * DefaultMinGap + 1) }

\* ------------------------------------------------------------------------
\* State
\* ------------------------------------------------------------------------
VARIABLES
    pc,               \* position of the running call
    outcome,          \* how run_beep_sequence ended
    exc,              \* the function an uncaught exception left, "" if none
    log,              \* every command issued to an instrument, in order
    psu, dmm,         \* the handles: "connected" or "None"
    v_main, v_double, v_triple,
    frame, step,      \* run_test: its arguments and the next line of its body
    raw_data, readings,
    det,              \* detect_beep: its arguments
    above, i, spike_indices, detected,
    result_main, result_double, result_triple,
    max_current, stats, double_detected, triple_detected,
    plotted,          \* what plot_results was given
    summary_rows      \* rows written by export_summary_to_csv

inputs == <<psu, dmm, v_main, v_double, v_triple>>
rtvars == <<frame, step, raw_data, readings>>
detvars == <<det, above, i, spike_indices, detected>>
seqvars == <<result_main, result_double, result_triple, max_current, stats,
             double_detected, triple_detected, plotted, summary_rows>>
vars == <<pc, outcome, exc, log, inputs, rtvars, detvars, seqvars>>

IdleSeq ==
    /\ outcome = "running"
    /\ exc = ""
    /\ log = <<>>
    /\ result_main = NoResult
    /\ result_double = NoResult
    /\ result_triple = NoResult
    /\ max_current = <<>>
    /\ stats = <<>>
    /\ double_detected = "unset"
    /\ triple_detected = "unset"
    /\ plotted = <<>>
    /\ summary_rows = <<>>

IdleRunTest ==
    /\ frame = NoFrame
    /\ step = 0
    /\ raw_data = <<>>
    /\ readings = <<>>

IdleDetect ==
    /\ det = NoDet
    /\ above = <<>>
    /\ i = 0
    /\ spike_indices = <<>>
    /\ detected = "unset"

\* main() has read three voltages and calls run_beep_sequence
Init ==
    /\ pc = "call"
    /\ psu \in {"connected", "None"}
    /\ dmm \in {"connected", "None"}
    /\ v_main \in Voltages
    /\ v_double \in Voltages
    /\ v_triple \in Voltages
    /\ IdleSeq
    /\ IdleRunTest
    /\ IdleDetect

\* ------------------------------------------------------------------------
\* run_test
\* ------------------------------------------------------------------------
Cmd(dev, op, cmd, arg, try) ==
    [dev |-> dev, op |-> op, cmd |-> cmd, arg |-> arg, try |-> try]

\* mutant: the buffer is fetched before the wait
RunTestBody_FetchBeforeWait(voltage, nplc, sample_count) ==
    << Cmd("psu", "write", ":INST CH1", NoArg, FALSE),
       Cmd("psu", "write", ":VOLT", <<Fmt2(voltage)>>, FALSE),
       Cmd("psu", "write", ":OUTP ON", NoArg, FALSE),
       Cmd("dmm", "timeout", "timeout", <<Timeout(sample_count, nplc)>>, TRUE),
       Cmd("dmm", "write", "*CLS", NoArg, TRUE),
       Cmd("dmm", "write", ":CONF:CURR:DC", NoArg, TRUE),
       Cmd("dmm", "write", ":CURR:DC:NPLC", nplc, TRUE),
       Cmd("dmm", "write", ":SAMP:COUN", <<sample_count>>, TRUE),
       Cmd("dmm", "write", ":TRIG:SOUR IMM", NoArg, TRUE),
       Cmd("dmm", "write", ":INIT", NoArg, TRUE),
       Cmd("dmm", "query", ":FETC?", NoArg, TRUE),
       Cmd("host", "sleep", "sleep", <<SleepMs(sample_count)>>, TRUE) >>

\* the instrument traffic of run_test, line by line; try marks the lines
\* inside the try block
RunTestBody(voltage, nplc, sample_count) ==
    << Cmd("psu", "write", ":INST CH1", NoArg, FALSE),
       Cmd("psu", "write", ":VOLT", <<Fmt2(voltage)>>, FALSE),
       Cmd("psu", "write", ":OUTP ON", NoArg, FALSE),
       Cmd("dmm", "timeout", "timeout", <<Timeout(sample_count, nplc)>>, TRUE),
       Cmd("dmm", "write", "*CLS", NoArg, TRUE),
       Cmd("dmm", "write", ":CONF:CURR:DC", NoArg, TRUE),
       Cmd("dmm", "write", ":CURR:DC:NPLC", nplc, TRUE),
       Cmd("dmm", "write", ":SAMP:COUN", <<sample_count>>, TRUE),
       Cmd("dmm", "write", ":TRIG:SOUR IMM", NoArg, TRUE),
       Cmd("dmm", "write", ":INIT", NoArg, TRUE),
       Cmd("host", "sleep", "sleep", <<SleepMs(sample_count)>>, TRUE),
       Cmd("dmm", "query", ":FETC?", NoArg, TRUE) >>

Body == RunTestBody(frame.voltage, frame.nplc, frame.sample_count)

\* the log entry of a command, tagged with the acquisition that issued it
Entry(c, label) ==
    [dev |-> c.dev, op |-> c.op, cmd |-> c.cmd, arg |-> c.arg, acq |-> label]

\* entering run_test(psu, dmm, voltage, label, nplc, sample_count)
CallRunTest(voltage, label, nplc, sample_count) ==
    /\ frame' = [label |-> label, voltage |-> voltage, nplc |-> nplc,
                 sample_count |-> sample_count]
    /\ step' = 1
    /\ raw_data' = <<>>
    /\ readings' = <<>>
    /\ pc' = "run_test"

\* an exception nobody catches leaves func and ends the call of main's try
Raise(func) ==
    /\ pc' = "done"
    /\ outcome' = "raised"
    /\ exc' = func

\* except Exception: return a result with no readings
ExceptReturn ==
    /\ readings' = <<>>
    /\ pc' = "rt_return"
    /\ UNCHANGED <<outcome, exc, frame, step, raw_data>>

\* the three power-supply writes before the try block
RunTestPsuWrite ==
    /\ pc = "run_test"
    /\ step <= Len(Body)
    /\ ~Body[step].try
    /\ IF psu = "None"
       THEN /\ Raise("run_test")
            /\ UNCHANGED <<log, step>>
       ELSE /\ log' = Append(log, Entry(Body[step], frame.label))
            /\ \E ok \in BOOLEAN :
                 IF ok
                 THEN /\ step' = step + 1
                      /\ UNCHANGED <<pc, outcome, exc>>
                 ELSE /\ Raise("run_test")
                      /\ UNCHANGED step
    /\ UNCHANGED <<inputs, frame, raw_data, readings, detvars, seqvars>>

\* dmm.timeout = ... and the dmm.write lines, inside the try block
RunTestDmmWrite ==
    /\ pc = "run_test"
    /\ step <= Len(Body)
    /\ Body[step].try
    /\ Body[step].op \in {"timeout", "write"}
    /\ IF dmm = "None"
       THEN /\ ExceptReturn
            /\ UNCHANGED log
       ELSE /\ log' = Append(log, Entry(Body[step], frame.label))
            /\ \E ok \in BOOLEAN :
                 IF ok
                 THEN /\ step' = step + 1
                      /\ UNCHANGED <<pc, outcome, exc, frame, raw_data, readings>>
                 ELSE ExceptReturn
    /\ UNCHANGED <<inputs, detvars, seqvars>>

\* time.sleep(sample_count * 0.01)
RunTestSleep ==
    /\ pc = "run_test"
    /\ step <= Len(Body)
    /\ Body[step].op = "sleep"
    /\ log' = Append(log, Entry(Body[step], frame.label))
    /\ step' = step + 1
    /\ UNCHANGED <<pc, outcome, exc, inputs, frame, raw_data, readings,
                   detvars, seqvars>>

\* raw_data = dmm.query(":FETC?")
RunTestFetch ==
    /\ pc = "run_test"
    /\ step <= Len(Body)
    /\ Body[step].op = "query"
    /\ log' = Append(log, Entry(Body[step], frame.label))
    /\ \/ ExceptReturn
       \/ \E reply \in FetchReplies :
            /\ raw_data' = reply
            /\ step' = step + 1
            /\ pc' = "rt_parse"
            /\ UNCHANGED <<outcome, exc, frame, readings>>
    /\ UNCHANGED <<inputs, detvars, seqvars>>

\* from raw_data.strip() to the end of the try block
RunTestParse ==
    /\ pc = "rt_parse"
    /\ readings' = ParseReadings(raw_data)
    /\ pc' = "rt_return"
    /\ UNCHANGED <<outcome, exc, log, inputs, frame, step, raw_data,
                   detvars, seqvars>>

\* what run_test returns
Result == [label |-> frame.label, voltage |-> frame.voltage, readings |-> readings]

\* ------------------------------------------------------------------------
\* detect_beep
\* ------------------------------------------------------------------------
\* mutant: a reading equal to the threshold counts as above it
Above_NonStrict(rs, threshold) ==
    [k \in 1..Len(rs) |-> ~DecGT(threshold, rs[k])]

\* above = np.array(readings) > threshold
Above(rs, threshold) == [k \in 1..Len(rs) |-> DecGT(rs[k], threshold)]

\* entering detect_beep(readings, label, threshold, min_gap)
CallDetectBeep(rs, label, threshold, min_gap) ==
    /\ det' = [readings |-> rs, label |-> label, threshold |-> threshold,
               min_gap |-> min_gap]
    /\ above' = Above(rs, threshold)
    /\ i' = 0
    /\ spike_indices' = <<>>
    /\ detected' = "unset"
    /\ pc' = "detect_loop"

\* mutant: the cursor moves on by one after a spike
DetectSpike_NoSkip ==
    /\ pc = "detect_loop"
    /\ i < Len(above)
    /\ above[i + 1]
    /\ Len(spike_indices) < MaxSpikes
    /\ spike_indices' = Append(spike_indices, i)
    /\ i' = i + 1
    /\ UNCHANGED <<pc, outcome, exc, log, inputs, rtvars, det, above, detected,
                   seqvars>>

\* if above[i]: spike_indices.append(i); i += min_gap
DetectSpike ==
    /\ pc = "detect_loop"
    /\ i < Len(above)
    /\ above[i + 1]
    /\ Len(spike_indices) < MaxSpikes
    /\ spike_indices' = Append(spike_indices, i)
    /\ i' = i + det.min_gap
    /\ UNCHANGED <<pc, outcome, exc, log, inputs, rtvars, det, above, detected,
                   seqvars>>

\* else: i += 1
DetectSkip ==
    /\ pc = "detect_loop"
    /\ i < Len(above)
    /\ ~above[i + 1]
    /\ i' = i + 1
    /\ UNCHANGED <<pc, outcome, exc, log, inputs, rtvars, det, above,
                   spike_indices, detected, seqvars>>

\* the value detect_beep returns for num_spikes spikes
Classify(label, num_spikes) ==
    IF label = "Double Beep"
    THEN (IF num_spikes >= 2 THEN "True" ELSE "False")
    ELSE IF label = "Triple Beep"
    THEN (IF num_spikes >= 3 THEN "True" ELSE "False")
    ELSE "None"

\* the loop is over: num_spikes = len(spike_indices) and the two label tests
DetectReturn ==
    /\ pc = "detect_loop"
    /\ ~(i < Len(above))
    /\ detected' = Classify(det.label, Len(spike_indices))
    /\ pc' = "detect_ret"
    /\ UNCHANGED <<outcome, exc, log, inputs, rtvars, det, above, i,
                   spike_indices, seqvars>>

\* ------------------------------------------------------------------------
\* run_beep_sequence
\* ------------------------------------------------------------------------
\* max(r) and min(r) of a non-empty list
DecMax(r) == CHOOSE x \in Range(r) : \A y \in Range(r) : ~DecGT(y, x)

DecMin(r) == CHOOSE x \in Range(r) : \A y \in Range(r) : ~DecGT(x, y)

\* mutant: the guard tests the multimeter handle
PsuMissing_Dmm == dmm = "None"

\* if psu is None
PsuMissing == psu = "None"

\* print the refusal and return
SeqRefuse ==
    /\ pc = "call"
    /\ PsuMissing
    /\ outcome' = "refused"
    /\ pc' = "done"
    /\ UNCHANGED <<exc, log, inputs, rtvars, detvars, seqvars>>

\* psu.write(":OUTP ON"), then run_test(psu, dmm, v_main, label="Main Test")
SeqOutputOn ==
    /\ pc = "call"
    /\ ~PsuMissing
    /\ IF psu = "None"
       THEN /\ Raise("run_beep_sequence")
            /\ UNCHANGED <<log, rtvars>>
       ELSE /\ log' = Append(log, Entry(Cmd("psu", "write", ":OUTP ON", NoArg, FALSE), ""))
            /\ \E ok \in BOOLEAN :
                 IF ok
                 THEN /\ CallRunTest(v_main, "Main Test", DefaultNplc, DefaultSampleCount)
                      /\ UNCHANGED <<outcome, exc>>
                 ELSE /\ Raise("run_beep_sequence")
                      /\ UNCHANGED rtvars
    /\ UNCHANGED <<inputs, detvars, seqvars>>

\* the main result is back: max_current, the no-readings return, the statistics,
\* then run_test(psu, dmm, v_double, label="Double Beep")
SeqAfterMain ==
    /\ pc = "rt_return"
    /\ frame.label = "Main Test"
    /\ result_main' = Result
    /\ max_current' = IF readings # <<>> THEN DecMax(readings) ELSE <<0, 0>>
    /\ IF readings = <<>>
       THEN /\ outcome' = "aborted"
            /\ pc' = "done"
            /\ UNCHANGED <<stats, rtvars>>
       ELSE /\ stats' = [min |-> DecMin(readings), max |-> DecMax(readings),
                         n |-> Len(readings)]
            /\ CallRunTest(v_double, "Double Beep", DefaultNplc, DefaultSampleCount)
            /\ UNCHANGED outcome
    /\ UNCHANGED <<exc, log, inputs, detvars, result_double, result_triple,
                   double_detected, triple_detected, plotted, summary_rows>>

\* the double-beep result is back: detect_beep(result_double['readings'], "Double Beep")
SeqAfterDouble ==
    /\ pc = "rt_return"
    /\ frame.label = "Double Beep"
    /\ result_double' = Result
    /\ CallDetectBeep(readings, "Double Beep", DefaultThreshold, DefaultMinGap)
    /\ UNCHANGED <<outcome, exc, log, inputs, rtvars, result_main, result_triple,
                   max_current, stats, double_detected, triple_detected, plotted,
                   summary_rows>>

\* double_detected is set, then
\* run_test(psu, dmm, v_triple, label="Triple Beep", nplc=1, sample_count=600)
SeqDoubleDetected ==
    /\ pc = "detect_ret"
    /\ det.label = "Double Beep"
    /\ double_detected' = detected
    /\ CallRunTest(v_triple, "Triple Beep", TripleNplc, TripleSampleCount)
    /\ UNCHANGED <<outcome, exc, log, inputs, detvars, result_main, result_double,
                   result_triple, max_current, stats, triple_detected, plotted,
                   summary_rows>>

\* the triple-beep result is back:
\* detect_beep(result_triple['readings'], "Triple Beep", threshold=0.005, min_gap=10)
SeqAfterTriple ==
    /\ pc = "rt_return"
    /\ frame.label = "Triple Beep"
    /\ result_triple' = Result
    /\ CallDetectBeep(readings, "Triple Beep", DefaultThreshold, DefaultMinGap)
    /\ UNCHANGED <<outcome, exc, log, inputs, rtvars, result_main, result_double,
                   max_current, stats, double_detected, triple_detected, plotted,
                   summary_rows>>

\* triple_detected is set, then plot_results([result_main, result_double,
\* result_triple]) and the function ends
SeqPlot ==
    /\ pc = "detect_ret"
    /\ det.label = "Triple Beep"
    /\ triple_detected' = detected
    /\ plotted' = <<result_main, result_double, result_triple>>
    /\ outcome' = "complete"
    /\ pc' = "done"
    /\ UNCHANGED <<exc, log, inputs, rtvars, detvars, result_main, result_double,
                   result_triple, max_current, stats, double_detected, summary_rows>>

Next ==
    \/ SeqRefuse
    \/ SeqOutputOn
    \/ RunTestPsuWrite
    \/ RunTestDmmWrite
    \/ RunTestSleep
    \/ RunTestFetch
    \/ RunTestParse
    \/ SeqAfterMain
    \/ SeqAfterDouble
    \/ DetectSpike
    \/ DetectSkip
    \/ DetectReturn
    \/ SeqDoubleDetected
    \/ SeqAfterTriple
    \/ SeqPlot

Spec == Init /\ [][Next]_vars

\* ------------------------------------------------------------------------
\* detect_beep called on its own, on every bounded input
\* ------------------------------------------------------------------------
Labels == {"Double Beep", "Triple Beep", "Standard"}

ReadingValues == { <<5, -3>>, <<1, -2>>, <<3, -2>> }

Thresholds == { DefaultThreshold, <<2, -2>> }

MinGaps == 0..MaxGap

SeqsUpTo(S, n) == UNION { [1..k -> S] : k \in 0..n }

InitDetect ==
    /\ pc = "detect_loop"
    /\ psu = "connected"
    /\ dmm = "connected"
    /\ v_main = 5000
    /\ v_double = 5000
    /\ v_triple = 5000
    /\ IdleSeq
    /\ IdleRunTest
    /\ \E rs \in SeqsUpTo(ReadingValues, MaxLen), label \in Labels,
          threshold \in Thresholds, min_gap \in MinGaps :
         /\ det = [readings |-> rs, label |-> label, threshold |-> threshold,
                   min_gap |-> min_gap]
         /\ above = Above(rs, threshold)
    /\ i = 0
    /\ spike_indices = <<>>
    /\ detected = "unset"

NextDetect ==
    \/ DetectSpike
    \/ DetectSkip
    \/ DetectReturn

SpecDetect == InitDetect /\ [][NextDetect]_vars

\* ------------------------------------------------------------------------
\* the parsing step of run_test on every bounded payload
\* ------------------------------------------------------------------------
InitParse ==
    /\ pc = "rt_parse"
    /\ psu = "connected"
    /\ dmm = "connected"
    /\ v_main = 5000
    /\ v_double = 5000
    /\ v_triple = 5000
    /\ IdleSeq
    /\ IdleDetect
    /\ frame = [label |-> "Standard", voltage |-> 5000, nplc |-> DefaultNplc,
                sample_count |-> DefaultSampleCount]
    /\ step = Len(Body) + 1
    /\ raw_data \in SeqsUpTo(Alphabet, MaxPayloadLen)
    /\ readings = <<>>

NextParse == RunTestParse

SpecParse == InitParse /\ [][NextParse]_vars

\* ------------------------------------------------------------------------
\* Properties
\* ------------------------------------------------------------------------
\* the commands an acquisition issued, in order
Segment(label) ==
    LET Mine(e) == e.acq = label
    IN  SelectSeq(log, Mine)

CmdNames(entries) == [k \in 1..Len(entries) |-> entries[k].cmd]

IsPrefix(s, t) == Len(s) <= Len(t) /\ s = SubSeq(t, 1, Len(s))

AcqRank(label) ==
    CASE label = "" -> 0
      [] label = "Main Test" -> 1
      [] label = "Double Beep" -> 2
      [] label = "Triple Beep" -> 3
      [] OTHER -> 4

\* C1: with the power-supply handle absent, run_beep_sequence returns at once
\* (no exception) and nothing is issued to any instrument: the command log
\* stays empty, no acquisition, detection or plot happens.
C1_RefusedWithoutCommands ==
    psu = "None" =>
        /\ log = <<>>
        /\ exc = ""
        /\ pc \in {"call", "done"}
        /\ pc = "done" => outcome = "refused"
        /\ result_main = NoResult /\ result_double = NoResult
        /\ result_triple = NoResult
        /\ frame = NoFrame
        /\ det = NoDet
        /\ plotted = <<>>

C1_Witness == psu = "None" /\ dmm = "connected" /\ pc = "done" /\ outcome = "refused"

\* C2: no communication failure at any step of run_test leaves run_test as an
\* exception.
C2_RunTestNeverRaises == exc # "run_test"

\* C3: detect_beep called with a label other than the two supported ones ends
\* in an error, never in a normal return.
C3_UnsupportedLabelRaises ==
    (pc = "detect_ret" /\ det.label \notin SupportedLabels) => exc = "detect_beep"

\* C4: once the main acquisition has returned with the power supply connected,
\* the sequence ends early exactly when the main readings are empty; nothing
\* in the double-beep or triple-beep acquisition stops it.
C4_OnlyEmptyMainStops ==
    (pc = "done" /\ psu = "connected" /\ result_main.label = "Main Test") =>
        (outcome = "complete" <=> result_main.readings # <<>>)

\* C5: the acquisitions run in the order main, double beep, triple beep and
\* never interleave; each programs its own voltage and profile (0.1 / 100 for
\* main and double beep, 1 / 600 for triple beep); the next acquisition issues
\* nothing before the previous result is stored; a complete run has all three.
ExpectedProfile(label) ==
    IF label = "Triple Beep"
    THEN [nplc |-> <<1, 0>>, sample_count |-> <<600>>]
    ELSE [nplc |-> <<1, -1>>, sample_count |-> <<100>>]

ExpectedVoltage(label) ==
    CASE label = "Main Test" -> v_main
      [] label = "Double Beep" -> v_double
      [] label = "Triple Beep" -> v_triple
      [] OTHER -> 0

C5_SequentialAcquisitions ==
    /\ \A k \in 1..Len(log) - 1 : AcqRank(log[k].acq) <= AcqRank(log[k + 1].acq)
    /\ \A k \in 1..Len(log) :
         /\ log[k].acq \in {"", "Main Test", "Double Beep", "Triple Beep"}
         /\ log[k].cmd = ":VOLT" =>
              log[k].arg = <<(ExpectedVoltage(log[k].acq) + 5) \div 10>>
         /\ log[k].cmd = ":CURR:DC:NPLC" => log[k].arg = ExpectedProfile(log[k].acq).nplc
         /\ log[k].cmd = ":SAMP:COUN" =>
              log[k].arg = ExpectedProfile(log[k].acq).sample_count
         /\ log[k].acq = "Double Beep" =>
              /\ result_main.label = "Main Test"
              /\ result_main.voltage = v_main
              /\ result_main.readings # <<>>
         /\ log[k].acq = "Triple Beep" =>
              /\ result_double.label = "Double Beep"
              /\ result_double.voltage = v_double
              /\ double_detected \in {"True", "False"}
    /\ outcome = "complete" =>
         /\ \A label \in {"Main Test", "Double Beep", "Triple Beep"} :
              /\ Len(Segment(label)) >= 1
              /\ Segment(label)[1].cmd = ":INST CH1"
         /\ Segment("Main Test")[Len(Segment("Main Test"))].cmd = ":FETC?"
         /\ result_triple.label = "Triple Beep"
         /\ result_triple.voltage = v_triple
         /\ plotted = <<result_main, result_double, result_triple>>

C5_Witness ==
    /\ outcome = "complete"
    /\ v_main # v_double
    /\ v_double # v_triple
    /\ \A label \in {"Main Test", "Double Beep", "Triple Beep"} :
         \E k \in 1..Len(log) : log[k].acq = label /\ log[k].cmd = ":FETC?"

\* C9: a run that completes all three acquisitions writes exactly one summary
\* row; a refused or aborted run writes none.
C9_OneSummaryPerCompleteRun ==
    pc = "done" =>
        IF outcome = "complete"
        THEN Len(summary_rows) = 1
        ELSE summary_rows = <<>>

\* C10: the commands of one acquisition are issued in the one order channel
\* select, voltage, output on, timeout, status clear, DC-current function,
\* integration time, sample count, trigger source, start, wait of
\* sample_count * 10 ms, fetch: what an acquisition has issued is always a
\* prefix of that list, so the fetch comes after start and wait, at most once.
C10_Order ==
    << ":INST CH1", ":VOLT", ":OUTP ON", "timeout", "*CLS", ":CONF:CURR:DC",
       ":CURR:DC:NPLC", ":SAMP:COUN", ":TRIG:SOUR IMM", ":INIT", "sleep",
       ":FETC?" >>

C10_CommandOrder ==
    \A label \in {"Main Test", "Double Beep", "Triple Beep"} :
        LET seg == Segment(label)
        IN  /\ IsPrefix(CmdNames(seg), C10_Order)
            /\ \A k \in 1..Len(seg) :
                 /\ seg[k].cmd = "sleep" =>
                      /\ seg[k].dev = "host"
                      /\ seg[k].arg = <<10 * ExpectedProfile(label).sample_count[1]>>
                 /\ seg[k].cmd \in {":INST CH1", ":VOLT", ":OUTP ON"} =>
                      seg[k].dev = "psu"
                 /\ seg[k].cmd \notin {":INST CH1", ":VOLT", ":OUTP ON", "sleep"} =>
                      seg[k].dev = "dmm"

C10_Witness ==
    /\ pc = "rt_parse"
    /\ frame.label = "Triple Beep"
    /\ CmdNames(Segment("Triple Beep")) = C10_Order

\* C6 as stated: at every point of a scan, for every min_gap (0 included),
\* the recorded indices are strictly increasing, at least min_gap apart, and
\* each is a position of the readings whose reading is above the threshold.
C6_ScanInvariant ==
    \A k \in 1..Len(spike_indices) :
        /\ spike_indices[k] \in 0..(Len(det.readings) - 1)
        /\ DecGT(det.readings[spike_indices[k] + 1], det.threshold)
        /\ k > 1 =>
             /\ spike_indices[k] > spike_indices[k - 1]
             /\ spike_indices[k] - spike_indices[k - 1] >= det.min_gap

\* C6 amended: the same, for every min_gap >= 1.
C6_ScanInvariantPositiveGap == det.min_gap >= 1 => C6_ScanInvariant

C6_Witness ==
    /\ det.min_gap >= 2
    /\ Len(spike_indices) >= 2
    /\ pc = "detect_loop"

\* the events of the debounce rule: a reading above the threshold is an event
\* unless it lies fewer than min_gap positions after the last event
RECURSIVE C7_RefEvents(_, _, _, _, _)
C7_RefEvents(rs, threshold, min_gap, k, acc) ==
    IF k >= Len(rs) THEN acc
    ELSE IF /\ DecGT(rs[k + 1], threshold)
            /\ (acc = <<>> \/ k - acc[Len(acc)] >= min_gap)
         THEN C7_RefEvents(rs, threshold, min_gap, k + 1, Append(acc, k))
         ELSE C7_RefEvents(rs, threshold, min_gap, k + 1, acc)

\* C7: for min_gap >= 1 detect_beep records exactly the events of the debounce
\* rule and returns, for "Double Beep", True exactly when there are at least
\* two of them, for "Triple Beep", True exactly when there are at least three.
C7_MatchesReference ==
    (pc = "detect_ret" /\ det.min_gap >= 1 /\ det.label \in SupportedLabels) =>
        LET events == C7_RefEvents(det.readings, det.threshold, det.min_gap, 0, <<>>)
            need == IF det.label = "Double Beep" THEN 2 ELSE 3
        IN  /\ spike_indices = events
            /\ detected = (IF Len(events) >= need THEN "True" ELSE "False")

C7_Witness ==
    /\ pc = "detect_ret"
    /\ det.label = "Double Beep"
    /\ det.min_gap >= 2
    /\ detected = "True"
    /\ \E k \in 1..Len(above) : above[k] /\ (k - 1) \notin Range(spike_indices)

\* the comma-separated tokens of a payload, by the places of its commas
C8_Tokens(payload) ==
    LET commas == {k \in 1..Len(payload) : payload[k] = ","}
        starts == {0} \cup commas
        ends == commas \cup {Len(payload) + 1}
        StartOf(j) == CHOOSE b \in starts : Cardinality({t \in starts : t < b}) = j - 1
        EndOf(b) == CHOOSE e \in ends : e > b /\ \A f \in ends : f > b => e <= f
    IN  [j \in 1..Cardinality(starts) |->
            SubSeq(payload, StartOf(j) + 1, EndOf(StartOf(j)) - 1)]

\* keeping only digits, '.', '-', 'E', 'e'
C8_Stripped(token) ==
    LET Numeric(c) == c \in {"0", "1", "2", "3", "4", "5", "6", "7", "8", "9",
                             ".", "-", "E", "e"}
    IN  SelectSeq(token, Numeric)

C8_Kept(token) == C8_Stripped(token) # <<>> /\ PyFloatOk(C8_Stripped(token))

\* the values of the kept tokens, in token order
C8_Values(payload) ==
    LET tokens == C8_Tokens(payload)
        kept == {j \in 1..Len(tokens) : C8_Kept(tokens[j])}
        Nth(r) == CHOOSE j \in kept : Cardinality({h \in kept : h < j}) = r - 1
    IN  [r \in 1..Cardinality(kept) |-> PyFloatValue(C8_Stripped(tokens[Nth(r)]))]

\* C8: the parsing step returns the values of the tokens whose stripped form
\* is non-empty and converts, in token order, and drops the others without an
\* error; so it returns at most one value per token, a payload of valid
\* numbers parses to those numbers, and the empty payload to no reading.
C8_ParseIsFilterOfTokens ==
    pc = "rt_return" =>
        LET tokens == C8_Tokens(raw_data)
        IN  /\ readings = C8_Values(raw_data)
            /\ Len(readings) <= Len(tokens)
            /\ (\A j \in 1..Len(tokens) : PyFloatOk(tokens[j])) =>
                 readings = [j \in 1..Len(tokens) |-> PyFloatValue(tokens[j])]
            /\ raw_data = <<>> => readings = <<>>
            /\ exc = ""
            /\ outcome = "running"

C8_Witness ==
    /\ pc = "rt_return"
    /\ Len(C8_Tokens(raw_data)) = 2
    /\ Len(readings) = 1
    /\ "A" \in Range(C8_Tokens(raw_data)[1])
    /\ C8_Kept(C8_Tokens(raw_data)[1])
    /\ readings[1][1] < 0

====
